---- MODULE Spec2Model ----
(***************************************************************************)
(* AI-RPG: the NPC chat launcher (npc_chat.py) and the NPC creator         *)
(* (npc_creator.py), both working on the profile file npc_data.json.       *)
(*                                                                         *)
(* A text is a sequence of characters.  Lines typed by the user and the    *)
(* literals they are compared with ('quit', 'exit', 'change', 'done', the  *)
(* identifiers) are written character by character, so that strip() and   *)
(* lower() are computed on them.  Long fixed display literals (greetings,  *)
(* the fallback reply, the pieces of the system prompt, the sample         *)
(* profiles' descriptions) are written as one unit each: no code path      *)
(* strips, lowers or compares them with typed input.                       *)
(***************************************************************************)
EXTENDS Integers, Sequences, FiniteSets

VARIABLES
    file,                  \* npc_data.json on disk
    openai_available,      \* OPENAI_AVAILABLE: the openai package imported
    env_key,               \* OPENAI_API_KEY in the environment ("" when unset)
    runs,                  \* launcher processes started so far
    pc,                    \* position of the running frame
    stack,                 \* return addresses of the suspended callers
    npcs,                  \* NPCChatSystem.npcs
    current_npc,           \* NPCChatSystem.current_npc: <<>> is None, <<p>> is p
    api_key,               \* NPCChatSystem.api_key
    conversation_history,  \* NPCChatSystem.conversation_history (the Transcript)
    user_input,            \* the line most recently read by a chat loop
    npc_id,                \* the identifier most recently handed to select_npc / typed in create_npc
    select_result,         \* what the last select_npc returned
    creator_npcs,          \* npcs of npc_creator.main
    existing_ids,          \* existing_ids of npc_creator.main
    full,                  \* history: every entry appended since the last selection, uncapped
    before,                \* history: the Transcript when user_input was read
    sent,                  \* history: message lists passed to the API for user_input
    outcome,               \* history: how chat_with_openai ended for user_input
    response,              \* history: what chat_with_openai returned for user_input
    loads,                 \* history: every load of the profile file
    op                     \* history: the step that produced this state

vars == <<file, openai_available, env_key, runs, pc, stack, npcs, current_npc,
          api_key, conversation_history, user_input, npc_id, select_result,
          creator_npcs, existing_ids, full, before, sent, outcome, response,
          loads, op>>

session == <<conversation_history, full, before, sent, outcome, response, user_input>>
creator == <<creator_npcs, existing_ids>>
world == <<openai_available, env_key, runs>>

----------------------------------------------------------------------------
(* Bounds of the model. *)

\* chat messages exchanged with one selected character
MaxExchanges == 15
\* failed completions within one selection
MaxFailures == 1
\* chat sessions nested by successful 'change' commands
MaxSessions == 2
\* profiles in the list the creator holds
MaxStore == 3
\* launcher processes started one after the other
MaxRuns == 2

(* Program constants. *)

\* len(self.conversation_history) > 20 ... [-20:]
HistoryCap == 20

----------------------------------------------------------------------------
(* Texts. *)

Whitespace == {" ", "\t"}

Upper == <<"A","B","C","D","E","F","G","H","I","J","K","L","M",
           "N","O","P","Q","R","S","T","U","V","W","X","Y","Z">>
Lower == <<"a","b","c","d","e","f","g","h","i","j","k","l","m",
           "n","o","p","q","r","s","t","u","v","w","x","y","z">>

LowerChar(c) ==
    IF \E i \in 1..26 : Upper[i] = c
    THEN Lower[CHOOSE i \in 1..26 : Upper[i] = c]
    ELSE c

\* str.lower()
ToLower(s) == [i \in 1..Len(s) |-> LowerChar(s[i])]

RECURSIVE LStrip(_)
LStrip(s) ==
    IF s # <<>> /\ Head(s) \in Whitespace THEN LStrip(Tail(s)) ELSE s

RECURSIVE RStrip(_)
RStrip(s) ==
    IF s # <<>> /\ s[Len(s)] \in Whitespace
    THEN RStrip(SubSeq(s, 1, Len(s) - 1))
    ELSE s

\* str.strip()
Strip(s) == RStrip(LStrip(s))

Range(s) == {s[i] : i \in 1..Len(s)}

QUIT == <<"q","u","i","t">>
EXIT == <<"e","x","i","t">>
CHANGE == <<"c","h","a","n","g","e">>
DONE == <<"d","o","n","e">>

MERCHANT == <<"m","e","r","c","h","a","n","t">>
GUARD == <<"g","u","a","r","d">>
WIZARD == <<"w","i","z","a","r","d">>

DefaultGreeting == <<"Hello there! How can I help you today?">>
Fallback == <<"I'm sorry, I'm having trouble responding right now.">>

----------------------------------------------------------------------------
(* Profiles and the profile file. *)

sample_npcs == <<
    [id |-> MERCHANT,
     name |-> <<"Gorn the Merchant">>,
     personality |-> <<"Shrewd, business-minded, but fair. Speaks with a slight accent.">>,
     role |-> <<"Town vendor who sells rare items and knows town gossip.">>,
     quest_instruction |-> <<"Can provide information about a rumored treasure in the nearby caves.">>],
    [id |-> GUARD,
     name |-> <<"Captain Lyra">>,
     personality |-> <<"Stern, dutiful, but kind-hearted. Values order and justice.">>,
     role |-> <<"Captain of the town guard, responsible for security.">>,
     quest_instruction |-> <<"Might ask players to investigate strange occurrences in the forest.">>] >>

\* A hand-written profile with the optional 'greeting' field.
WizardNpc ==
    [id |-> WIZARD,
     name |-> <<"Eldrin">>,
     personality |-> <<"Absent-minded.">>,
     role |-> <<"Court wizard.">>,
     quest_instruction |-> <<"Seeks a lost tome.">>,
     greeting |-> <<"Ah, a visitor!">>]

\* A hand-edited file in which two objects carry the same 'id'.
TwinNpc ==
    [id |-> WIZARD,
     name |-> <<"Eldrin's Shade">>,
     personality |-> <<"Silent.">>,
     role |-> <<"Apparition.">>,
     quest_instruction |-> <<"None.">>]

FieldOrder == <<"id", "name", "personality", "role", "quest_instruction", "greeting">>

Keys(npc) == SelectSeq(FieldOrder, LAMBDA k : k \in DOMAIN npc)

\* One JSON object: its members, as <<key, value>> pairs in order.
DumpObject(npc) == [i \in 1..Len(Keys(npc)) |-> <<Keys(npc)[i], npc[Keys(npc)[i]]>>]

\* json.dump(npcs, file, indent=4): the array of objects written to the file.
json_dump(list) == [i \in 1..Len(list) |-> DumpObject(list[i])]

\* One parsed object: a later member with the same key wins.
LoadObject(obj) ==
    [k \in {obj[i][1] : i \in 1..Len(obj)} |->
        obj[CHOOSE i \in 1..Len(obj) :
                /\ obj[i][1] = k
                /\ \A j \in (i + 1)..Len(obj) : obj[j][1] # k][2]]

\* json.load(file)
json_load(data) == [i \in 1..Len(data) |-> LoadObject(data[i])]

Absent == [state |-> "absent", data |-> <<>>]
Malformed == [state |-> "malformed", data |-> <<>>]
JsonFile(list) == [state |-> "json", data |-> json_dump(list)]

\* Variant: the 'greeting' field of the profile is ignored.
GreetingFixed(npc) == DefaultGreeting

\* dict.get('greeting', "Hello there! How can I help you today?")
GreetingOf(npc) == IF "greeting" \in DOMAIN npc THEN npc.greeting ELSE DefaultGreeting

Entry(role, content) == [role |-> role, content |-> content]

----------------------------------------------------------------------------
(* npc_chat.py *)

\* _load_npcs: the list it returns
LoadNpcs(f) == IF f.state = "absent" THEN sample_npcs ELSE json_load(f.data)

\* Variant: the sample list is returned but never written out.
FileAfterLoadUnwritten(f) == f

\* _load_npcs: the file it leaves
FileAfterLoad(f) == IF f.state = "absent" THEN JsonFile(sample_npcs) ELSE f

\* setup: neither sys.exit(1) is taken
SetupOk == openai_available /\ env_key # ""

LoadRecord(by, f, result, after) ==
    [by |-> by, before |-> f, result |-> result, after |-> after]

\* NPCChatSystem.__init__: _load_npcs, the attribute defaults, setup
Construct ==
    /\ pc = "construct"
    /\ op' = "construct"
    /\ IF file.state = "malformed"
       THEN \* json.JSONDecodeError is not caught: the process dies
            /\ pc' = "crash"
            /\ stack' = <<>>
            /\ UNCHANGED <<file, npcs, current_npc, api_key, conversation_history, loads>>
       ELSE /\ npcs' = LoadNpcs(file)
            /\ file' = FileAfterLoad(file)
            /\ loads' = Append(loads, LoadRecord("chat", file, npcs', file'))
            /\ current_npc' = <<>>
            /\ conversation_history' = <<>>
            /\ api_key' = IF openai_available THEN env_key ELSE ""
            /\ pc' = IF SetupOk THEN "main_select" ELSE "exit"
            /\ stack' = IF SetupOk THEN stack ELSE <<>>
    /\ UNCHANGED <<world, creator, full, before, sent, outcome, response,
                   user_input, npc_id, select_result>>

\* select_npc: the for loop finds a profile whose 'id' equals npc_id
SelectFound(list, id) == \E i \in 1..Len(list) : list[i].id = id

\* select_npc: the first profile in list order whose 'id' equals npc_id
SelectMatch(list, id) ==
    list[CHOOSE i \in 1..Len(list) :
            /\ list[i].id = id
            /\ \A j \in 1..(i - 1) : list[j].id # id]

\* select_npc: self.current_npc after the call
SelectNpc(list, id, cur) ==
    IF SelectFound(list, id) THEN <<SelectMatch(list, id)>> ELSE cur

\* Variant: a successful selection keeps the previous Transcript.
SelectHistoryKept(found, history) == history

\* select_npc: self.conversation_history after the call
SelectHistory(found, history) == IF found THEN <<>> ELSE history

\* chat sessions on the call stack: the running one and those suspended at line 229
Sessions == 1 + Cardinality({i \in 1..Len(stack) : stack[i] = "chat"})

\* main: select_npc(args.npc) or select_npc(input(...)), then chat() on success
MainSelect(id) ==
    /\ pc = "main_select"
    /\ op' = "main_select"
    /\ npc_id' = id
    /\ select_result' = SelectFound(npcs, id)
    /\ current_npc' = SelectNpc(npcs, id, current_npc)
    /\ conversation_history' = SelectHistory(SelectFound(npcs, id), conversation_history)
    /\ full' = IF SelectFound(npcs, id) THEN <<>> ELSE full
    /\ pc' = IF SelectFound(npcs, id) THEN "chat_start" ELSE "return"
    /\ stack' = IF SelectFound(npcs, id) THEN Append(stack, "main") ELSE stack
    /\ UNCHANGED <<file, world, npcs, api_key, creator, before, sent, outcome,
                   response, user_input, loads>>

\* chat: the guard, the banner and the greeting, up to the first input()
ChatStart ==
    /\ pc = "chat_start"
    /\ op' = "chat_start"
    /\ IF current_npc = <<>>
       THEN /\ pc' = "return"
            /\ UNCHANGED <<conversation_history, full>>
       ELSE /\ conversation_history' =
                  Append(conversation_history, Entry("assistant", GreetingOf(current_npc[1])))
            /\ full' = Append(full, Entry("assistant", GreetingOf(current_npc[1])))
            /\ pc' = "input"
    /\ UNCHANGED <<file, world, stack, npcs, current_npc, api_key, creator, before,
                   sent, outcome, response, user_input, npc_id, select_result, loads>>

\* cmd = user_input.strip().lower()
Cmd(line) == ToLower(Strip(line))

\* Variant: the end commands are matched without strip().
IsEndCommandUnstripped(line) == ToLower(line) \in {QUIT, EXIT}

\* cmd in ('quit', 'exit')
IsEndCommand(line) == Cmd(line) \in {QUIT, EXIT}

\* cmd == 'change'
IsChangeCommand(line) == Cmd(line) = CHANGE

Exchanges == IF full = <<>> THEN 0 ELSE (Len(full) - 1) \div 2

\* chat: one input() of the loop, the command dispatch, the user entry
ReadInput(line) ==
    /\ pc = "input"
    /\ op' = "read_input"
    /\ user_input' = line
    /\ before' = conversation_history
    /\ sent' = <<>>
    /\ outcome' = "none"
    /\ response' = <<>>
    /\ IF IsEndCommand(line)
       THEN /\ pc' = "return"
            /\ UNCHANGED <<conversation_history, full>>
       ELSE IF IsChangeCommand(line)
       THEN /\ pc' = "change"
            /\ UNCHANGED <<conversation_history, full>>
       ELSE /\ Exchanges < MaxExchanges
            /\ conversation_history' = Append(conversation_history, Entry("user", line))
            /\ full' = Append(full, Entry("user", line))
            /\ pc' = "completion"
    /\ UNCHANGED <<file, world, stack, npcs, current_npc, api_key, creator,
                   npc_id, select_result, loads>>

\* Variant: a failed switch goes back to the prompt (continue instead of break).
AfterChangeStay(found) == IF found THEN "chat_start" ELSE "input"

\* chat: where the loop goes after select_npc(npc_id) under 'change'
AfterChange(found) == IF found THEN "chat_start" ELSE "return"

\* chat: 'change': list_npcs, input() of the identifier, select_npc, chat() on success
ChangeSelect(id) ==
    /\ pc = "change"
    /\ SelectFound(npcs, id) => Sessions < MaxSessions
    /\ op' = "change_select"
    /\ npc_id' = id
    /\ select_result' = SelectFound(npcs, id)
    /\ current_npc' = SelectNpc(npcs, id, current_npc)
    /\ conversation_history' = SelectHistory(SelectFound(npcs, id), conversation_history)
    /\ full' = IF SelectFound(npcs, id) THEN <<>> ELSE full
    /\ pc' = AfterChange(SelectFound(npcs, id))
    /\ stack' = IF SelectFound(npcs, id) THEN Append(stack, "chat") ELSE stack
    /\ UNCHANGED <<file, world, npcs, api_key, creator, before, sent, outcome,
                   response, user_input, loads>>

\* _create_system_prompt
CreateSystemPrompt(npc) ==
    <<"You are ">> \o npc.name
    \o <<", an NPC in a fantasy RPG game. Personality: ">> \o npc.personality
    \o <<" Role: ">> \o npc.role
    \o <<" Quest: ">> \o npc.quest_instruction
    \o <<" Respond as this character would in the game, keeping responses relatively concise. Never break character or reference that you are an AI.">>

\* Variant: the current message is not appended to the request a second time.
BuildMessagesOnce(npc, history, user_message) ==
    <<Entry("system", CreateSystemPrompt(npc))>> \o history

\* chat_with_openai: the messages list
BuildMessages(npc, history, user_message) ==
    <<Entry("system", CreateSystemPrompt(npc))>> \o history
    \o <<Entry("user", user_message)>>

\* Variant: a failure while streaming returns what was accumulated so far.
ChatResponsePartial(out, reply) == IF out \in {"ok", "stream"} THEN reply ELSE Fallback

\* chat_with_openai: the string it returns
ChatResponse(out, reply) == IF out = "ok" THEN reply ELSE Fallback

\* Variant: the cap keeps the oldest entries ([:20] instead of [-20:]).
CapOldest(history) ==
    IF Len(history) > HistoryCap THEN SubSeq(history, 1, HistoryCap) ELSE history

\* chat: the retention cap on conversation_history
Cap(history) ==
    IF Len(history) > HistoryCap
    THEN SubSeq(history, Len(history) - HistoryCap + 1, Len(history))
    ELSE history

\* How a call of chat_with_openai can end: normally, or with an exception raised
\* by OpenAI(...), by client.chat.completions.create(...), or while iterating the stream.
Outcomes == {"ok", "construct", "request", "stream"}

Replies == {<<"Aye.">>}

Failures == Cardinality({i \in 1..Len(full) :
                            full[i] = Entry("assistant", Fallback)})

\* chat: chat_with_openai(user_input), the assistant entry, the cap
Complete(out, reply) ==
    /\ pc = "completion"
    /\ out # "ok" => Failures < MaxFailures
    /\ op' = "complete"
    /\ outcome' = out
    /\ sent' = IF out = "construct"
               THEN sent
               ELSE Append(sent, BuildMessages(current_npc[1], conversation_history, user_input))
    /\ response' = ChatResponse(out, reply)
    /\ conversation_history' =
           Cap(Append(conversation_history, Entry("assistant", response')))
    /\ full' = Append(full, Entry("assistant", response'))
    /\ pc' = "input"
    /\ UNCHANGED <<file, world, stack, npcs, current_npc, api_key, creator, before,
                   user_input, npc_id, select_result, loads>>

\* Variant: the enclosing chat loop goes on after the nested chat() returns
\* (no break at line 230).
AfterReturnResume(caller) == IF caller = "chat" THEN "input" ELSE "return"

\* Where a caller continues once its callee has returned: chat breaks out of
\* its loop (line 230), main and npc_creator.main have nothing left to do.
AfterReturn(caller) == "return"

\* A frame returns to its caller, or the process ends.
Return ==
    /\ pc = "return"
    /\ op' = "return"
    /\ IF stack = <<>>
       THEN /\ pc' = "exit"
            /\ stack' = stack
       ELSE /\ pc' = AfterReturn(stack[Len(stack)])
            /\ stack' = SubSeq(stack, 1, Len(stack) - 1)
    /\ UNCHANGED <<file, world, npcs, current_npc, api_key, creator, session,
                   npc_id, select_result, loads>>

\* Lines typed at the "You: " prompt.
ChatLines ==
    { QUIT,
      <<" ", "E", "x", "i", "t", "\t">>,
      <<"C", "H", "A", "N", "G", "E", " ">>,
      <<" ", "H", "i", "!">> }

\* Identifiers given on the command line or typed at the "Enter NPC ID" prompt.
SelectIds == {MERCHANT, GUARD, WIZARD, <<" ", "g", "u", "a", "r", "d">>}

ChatFiles == {Absent, JsonFile(<<WizardNpc, sample_npcs[2], TwinNpc>>)}

InitProcess ==
    /\ stack = <<>>
    /\ npcs = <<>>
    /\ current_npc = <<>>
    /\ api_key = ""
    /\ conversation_history = <<>>
    /\ user_input = <<>>
    /\ npc_id = <<>>
    /\ select_result = FALSE
    /\ creator_npcs = <<>>
    /\ existing_ids = {}
    /\ full = <<>>
    /\ before = <<>>
    /\ sent = <<>>
    /\ outcome = "none"
    /\ response = <<>>
    /\ loads = <<>>

\* python npc_chat.py has just been started
InitChat ==
    /\ file \in ChatFiles
    /\ openai_available \in BOOLEAN
    /\ env_key \in {"", "sk-test"}
    /\ runs = 1
    /\ pc = "construct"
    /\ op = "launch"
    /\ InitProcess

NextChat ==
    \/ Construct
    \/ \E id \in SelectIds : MainSelect(id)
    \/ ChatStart
    \/ \E line \in ChatLines : ReadInput(line)
    \/ \E id \in SelectIds : ChangeSelect(id)
    \/ \E out \in Outcomes, reply \in Replies : Complete(out, reply)
    \/ Return

SpecChat == InitChat /\ [][NextChat]_vars

----------------------------------------------------------------------------
(* npc_creator.py *)

\* load_npcs: FileNotFoundError and json.JSONDecodeError both give []
CreatorLoadNpcs(f) == IF f.state = "json" THEN json_load(f.data) ELSE <<>>

\* main: the banner, load_npcs, existing_ids, up to the first input() of create_npc
CreatorLoad ==
    /\ pc = "creator_load"
    /\ op' = "creator_load"
    /\ creator_npcs' = CreatorLoadNpcs(file)
    /\ existing_ids' = {creator_npcs'[i].id : i \in 1..Len(creator_npcs')}
    /\ loads' = Append(loads, LoadRecord("creator", file, creator_npcs', file))
    /\ pc' = "creator_id"
    /\ UNCHANGED <<file, world, stack, npcs, current_npc, api_key, session,
                   npc_id, select_result>>

\* Variant: the identifier is not looked up in existing_ids.
IdAcceptedUnchecked(id, existing) ==
    /\ id # <<>>
    /\ ToLower(id) # DONE

\* create_npc: the stripped line leaves the while loop as a new identifier
IdAccepted(id, existing) ==
    /\ id # <<>>
    /\ ToLower(id) # DONE
    /\ id \notin existing

\* create_npc: one input() of the identifier loop; on 'done' main saves the
\* list (save_npcs) and calls npc_chat.main()
CreatorEnterId(line) ==
    /\ pc = "creator_id"
    /\ npc_id' = Strip(line)
    /\ IF Strip(line) # <<>> /\ ToLower(Strip(line)) = DONE
       THEN /\ op' = "creator_save"
            /\ file' = JsonFile(creator_npcs)
            /\ pc' = "construct"
            /\ stack' = Append(stack, "creator")
       ELSE IF IdAccepted(Strip(line), existing_ids)
       THEN /\ Len(creator_npcs) < MaxStore
            /\ op' = "creator_id"
            /\ pc' = "creator_fields"
            /\ UNCHANGED <<file, stack>>
       ELSE /\ op' = "creator_id"
            /\ UNCHANGED <<file, pc, stack>>
    /\ UNCHANGED <<world, npcs, current_npc, api_key, creator, session,
                   select_result, loads>>

NewNpc(id, name, greeting) ==
    IF greeting # <<>>
    THEN [id |-> id, name |-> name, personality |-> <<"p">>, role |-> <<"r">>,
          quest_instruction |-> <<"q">>, greeting |-> greeting]
    ELSE [id |-> id, name |-> name, personality |-> <<"p">>, role |-> <<"r">>,
          quest_instruction |-> <<"q">>]

\* create_npc: the five remaining prompts; main appends the profile
CreatorEnterFields(name, greeting) ==
    /\ pc = "creator_fields"
    /\ op' = "creator_add"
    /\ creator_npcs' = Append(creator_npcs, NewNpc(npc_id, Strip(name), Strip(greeting)))
    /\ existing_ids' = existing_ids \cup {npc_id}
    /\ pc' = "creator_id"
    /\ UNCHANGED <<file, world, stack, npcs, current_npc, api_key, session,
                   npc_id, select_result, loads>>

\* One of the two launchers is started once the previous process is over.
Launch(entry) ==
    /\ pc \in {"idle", "exit", "crash"}
    /\ runs < MaxRuns
    /\ runs' = runs + 1
    /\ op' = "launch"
    /\ pc' = IF entry = "chat" THEN "construct" ELSE "creator_load"
    /\ stack' = <<>>
    /\ npcs' = <<>>
    /\ current_npc' = <<>>
    /\ api_key' = ""
    /\ conversation_history' = <<>>
    /\ user_input' = <<>>
    /\ npc_id' = <<>>
    /\ select_result' = FALSE
    /\ creator_npcs' = <<>>
    /\ existing_ids' = {}
    /\ full' = <<>>
    /\ before' = <<>>
    /\ sent' = <<>>
    /\ outcome' = "none"
    /\ response' = <<>>
    /\ UNCHANGED <<file, openai_available, env_key, loads>>

\* Lines typed at the "Enter NPC ID (or 'done' to finish)" prompt.
CreatorLines ==
    { <<"D", "o", "n", "e", " ">>,
      <<" ">>,
      WIZARD,
      <<" ", "g", "u", "a", "r", "d">>,
      <<"b", "a", "r", "d">> }

CreatorNames == {<<" ", "N", " ">>}
CreatorGreetings == {<<>>, <<" ", "Y", "o", " ">>}

StoreFiles == {Absent, Malformed, JsonFile(sample_npcs), JsonFile(<<WizardNpc, TwinNpc>>)}

\* nothing has been started yet
InitStore ==
    /\ file \in StoreFiles
    /\ openai_available = TRUE
    /\ env_key \in {"", "sk-test"}
    /\ runs = 0
    /\ pc = "idle"
    /\ op = "idle"
    /\ InitProcess

\* The profile file over successive launches; the user ends each chat at once.
NextStore ==
    \/ \E entry \in {"chat", "creator"} : Launch(entry)
    \/ CreatorLoad
    \/ \E line \in CreatorLines : CreatorEnterId(line)
    \/ \E name \in CreatorNames, greeting \in CreatorGreetings :
           CreatorEnterFields(name, greeting)
    \/ Construct
    \/ \E id \in {GUARD, WIZARD} : MainSelect(id)
    \/ ChatStart
    \/ ReadInput(QUIT)
    \/ Return

SpecStore == InitStore /\ [][NextStore]_vars

----------------------------------------------------------------------------
(* Properties. *)

Min(a, b) == IF a < b THEN a ELSE b

Suffix(s, n) == SubSeq(s, Len(s) - n + 1, Len(s))

Ended == pc \in {"return", "exit"}

Known(id) == \E i \in 1..Len(npcs) : npcs[i].id = id

\* C1: whenever the chat loop waits for the next line, after n completed
\* exchanges with the selected character, the Transcript has at most 20
\* entries and is the last min(20, 2n+1) entries, in order, of
\* greeting, user 1, assistant 1, ..., user n, assistant n; after 15
\* exchanges it has exactly 20 entries.
TranscriptCap ==
    pc \in {"input", "change"} =>
        /\ Len(full) = 2 * Exchanges + 1
        /\ full[1].role = "assistant"
        /\ full[1].content = (IF "greeting" \in DOMAIN current_npc[1]
                              THEN current_npc[1].greeting
                              ELSE DefaultGreeting)
        /\ \A k \in 1..Exchanges :
              /\ full[2 * k].role = "user"
              /\ full[2 * k + 1].role = "assistant"
        /\ Len(conversation_history) <= 20
        /\ conversation_history = Suffix(full, Min(20, 2 * Exchanges + 1))
        /\ Exchanges = 15 => Len(conversation_history) = 20

\* 15 exchanges done, 20 entries kept, the oldest kept one being user 6
TranscriptCapWitness ==
    /\ pc = "input"
    /\ Exchanges = 15
    /\ Len(conversation_history) = 20
    /\ conversation_history[1] = full[12]
    /\ conversation_history[1].role = "user"

\* C2: once the line read by the chat loop is, trimmed and lower-cased,
\* 'quit' or 'exit', the loop is over, and from that line on no request goes
\* to the Completion API and the Transcript stays as it was when the line was read.
EndCommand ==
    ToLower(Strip(user_input)) \in {QUIT, EXIT} =>
        /\ Ended
        /\ sent = <<>>
        /\ outcome = "none"
        /\ conversation_history = before

\* ' Exit<TAB>' was typed after at least one exchange and the process is over
EndCommandWitness ==
    /\ user_input = <<" ", "E", "x", "i", "t", "\t">>
    /\ pc = "exit"
    /\ Len(before) >= 3

SelectStep ==
    pc \in {"main_select", "change"} =>
    IF Known(npc_id')
    THEN /\ select_result'
         /\ current_npc' # <<>>
         /\ current_npc'[1] \in Range(npcs)
         /\ current_npc'[1].id = npc_id'
         /\ conversation_history' = <<>>
    ELSE /\ ~select_result'
         /\ current_npc' = current_npc
         /\ conversation_history' = conversation_history

\* C3: select with an identifier some profile of the store carries makes
\* such a profile the active one, empties the Transcript and returns success;
\* with an identifier no profile carries it returns failure and leaves the
\* active profile and the Transcript as they were.
SelectContract == [][SelectStep]_vars

\* a switch to a known identifier has just emptied a Transcript of three or more entries
SelectContractWitness ==
    /\ op = "change_select"
    /\ select_result
    /\ Len(before) >= 3
    /\ current_npc[1].id = npc_id
    /\ conversation_history = <<>>

\* C4: when the session started by a successful 'change' to character B first
\* waits for input, the Transcript is exactly one assistant entry holding B's
\* greeting (B's 'greeting' field, or the fixed default when B has none).
SelectionReset ==
    (op = "chat_start" /\ stack # <<>> /\ stack[Len(stack)] = "chat") =>
        /\ pc = "input"
        /\ current_npc # <<>>
        /\ current_npc[1].id = npc_id
        /\ conversation_history =
               << [role |-> "assistant",
                   content |-> IF "greeting" \in DOMAIN current_npc[1]
                               THEN current_npc[1].greeting
                               ELSE DefaultGreeting] >>

\* messages were exchanged with the guard, then the wizard (who has a greeting) was selected
SelectionResetWitness ==
    /\ op = "chat_start"
    /\ stack = <<"main", "chat">>
    /\ Len(before) >= 3
    /\ before[1].content = DefaultGreeting
    /\ current_npc[1].id = WIZARD
    /\ conversation_history = <<[role |-> "assistant", content |-> <<"Ah, a visitor!">>]>>

\* C5: when the completion call fails (constructing the client, sending the
\* request, or while streaming), chat_with_openai returns the fixed fallback
\* string, the Transcript ends with it as an assistant entry, and the loop is
\* back at reading the next line.
FallbackOnFailure ==
    outcome \in {"construct", "request", "stream"} =>
        /\ response = <<"I'm sorry, I'm having trouble responding right now.">>
        /\ pc = "input"
        /\ conversation_history[Len(conversation_history)] =
               [role |-> "assistant", content |-> response]
        /\ conversation_history[Len(conversation_history) - 1] =
               [role |-> "user", content |-> user_input]
        /\ full[Len(full)] = [role |-> "assistant", content |-> response]

\* the stream broke in the middle of a reply and the loop reads on
FallbackOnFailureWitness ==
    /\ outcome = "stream"
    /\ pc = "input"
    /\ conversation_history[Len(conversation_history)].content = Fallback

FailedSwitchStep ==
    (pc = "change" /\ ~Known(npc_id')) =>
    /\ pc' = "return"
    /\ sent' = <<>>
    /\ outcome' = "none"
    /\ current_npc' = current_npc
    /\ conversation_history' = conversation_history

\* C8: when the identifier typed after 'change' matches no profile, the chat
\* loop ends at once, no request goes to the Completion API, and the active
\* profile and the Transcript stay as they were.
FailedSwitch == [][FailedSwitchStep]_vars

\* an unknown identifier was typed after three or more Transcript entries
FailedSwitchWitness ==
    /\ op = "change_select"
    /\ ~select_result
    /\ pc = "return"
    /\ Len(conversation_history) >= 3
    /\ current_npc # <<>>

EndedStep ==
    Ended =>
    /\ Ended'
    /\ op' = "return"
    /\ Len(stack') < Len(stack) \/ (stack = <<>> /\ pc' = "exit")
    /\ UNCHANGED <<conversation_history, full, sent, outcome, user_input,
                   npc_id, current_npc>>

\* C9: once a chat session has ended, every enclosing session ends too: the
\* only steps left are returns, none reads a line, sends a request, changes
\* the Transcript or the active profile.
EndedIsTerminal == [][EndedStep]_vars

\* the nested session has returned into the session it was started from, which ends too
EndedIsTerminalWitness ==
    /\ op = "return"
    /\ pc = "return"
    /\ stack = <<"main">>
    /\ Len(before) >= 3

\* C10 as stated: the user entry is appended before the client is invoked,
\* and every chat message sends exactly one request, which is the system
\* prompt, the Transcript as it was when the line was read, and the user
\* message twice: Transcript length + 3 entries, at most 23.
RequestContents ==
    /\ pc = "completion" =>
          /\ sent = <<>>
          /\ conversation_history = Append(before, [role |-> "user", content |-> user_input])
    /\ op = "complete" =>
          /\ Len(sent) = 1
          /\ sent[1] = <<[role |-> "system", content |-> CreateSystemPrompt(current_npc[1])]>>
                       \o before
                       \o <<[role |-> "user", content |-> user_input],
                            [role |-> "user", content |-> user_input]>>
          /\ Len(sent[1]) = Len(before) + 3
          /\ Len(sent[1]) <= 23

\* C10 amended: as stated, except that a chat message sends no request when
\* constructing the client fails, and exactly one otherwise.
RequestContentsAmended ==
    /\ pc = "completion" =>
          /\ sent = <<>>
          /\ conversation_history = Append(before, [role |-> "user", content |-> user_input])
    /\ op = "complete" =>
          /\ Len(sent) = (IF outcome = "construct" THEN 0 ELSE 1)
          /\ \A r \in 1..Len(sent) :
                /\ sent[r] = <<[role |-> "system", content |-> CreateSystemPrompt(current_npc[1])]>>
                             \o before
                             \o <<[role |-> "user", content |-> user_input],
                                  [role |-> "user", content |-> user_input]>>
                /\ Len(sent[r]) = Len(before) + 3
                /\ Len(sent[r]) <= 23

\* a request of 23 entries went out from a full Transcript
RequestContentsWitness ==
    /\ op = "complete"
    /\ Len(before) = 20
    /\ Len(sent) = 1
    /\ Len(sent[1]) = 23
    /\ sent[1][22] = sent[1][23]

UniqueIds(list) ==
    \A i, j \in 1..Len(list) : list[i].id = list[j].id => i = j

\* the list the creator loaded, as of the moment it saves
CreatorLoaded == loads[Len(loads)].result

\* the list found in the file
Saved == json_load(file.data)

\* C6 as stated: whatever store was loaded and whatever identifiers were
\* typed, the store the creation flow saves has no two profiles with the
\* same identifier.
Uniqueness == op = "creator_save" => UniqueIds(Saved)

\* C6 amended: the saved store is the loaded store followed by the added
\* profiles, and no added profile has the identifier of a profile before it;
\* so the saved store has unique identifiers whenever the loaded one has.
UniquenessAmended ==
    op = "creator_save" =>
        /\ Len(Saved) >= Len(CreatorLoaded)
        /\ SubSeq(Saved, 1, Len(CreatorLoaded)) = CreatorLoaded
        /\ \A i \in (Len(CreatorLoaded) + 1)..Len(Saved) :
              \A j \in 1..(i - 1) : Saved[j].id # Saved[i].id
        /\ UniqueIds(CreatorLoaded) => UniqueIds(Saved)

\* at least one profile was added to the two loaded sample profiles and the list saved
UniquenessWitness ==
    /\ op = "creator_save"
    /\ Len(CreatorLoaded) = 2
    /\ Len(Saved) > Len(CreatorLoaded)
    /\ UniqueIds(Saved)

\* What default seeding asks of the i-th load when it found no file.
Seeded(i) ==
    /\ Len(loads[i].result) = 2
    /\ loads[i].result = sample_npcs
    /\ loads[i].after.state = "json"
    /\ (i + 1 \in DOMAIN loads /\ loads[i + 1].before = loads[i].after) =>
           loads[i + 1].result = loads[i].result

\* C7 as stated: every load that finds no file, by either launcher, yields
\* the two sample profiles and creates the file, and the next load from that
\* file yields the same two profiles in the same order.
DefaultSeeding ==
    \A i \in DOMAIN loads : loads[i].before.state = "absent" => Seeded(i)

\* C7 amended: that holds for the chat launcher's load; the creator's load of
\* a missing file yields an empty list and leaves the file missing.
DefaultSeedingAmended ==
    \A i \in DOMAIN loads :
        loads[i].before.state = "absent" =>
            IF loads[i].by = "chat"
            THEN Seeded(i)
            ELSE /\ loads[i].result = <<>>
                 /\ loads[i].after = loads[i].before

\* the chat launcher seeded the file and a later launch loaded from it
DefaultSeedingWitness ==
    \E i \in DOMAIN loads :
        /\ loads[i].by = "chat"
        /\ loads[i].before.state = "absent"
        /\ i + 1 \in DOMAIN loads
        /\ loads[i + 1].before = loads[i].after
        /\ Len(loads[i + 1].result) = 2

====
